---- MODULE Spec2Model ----
(***************************************************************************)
(* Todo list of react-router-clouflare-ssr-demo: the REST facade over the  *)
(* key-value store (workers/app.ts), the action dispatcher and the page    *)
(* component (app/routes/todos.tsx) and the toast queue                    *)
(* (app/context/toast-context.tsx, GlobalToast).                           *)
(*                                                                         *)
(* Conventions.  A JavaScript object is a function from field names to     *)
(* values, so object spread is function override.  A string the code trims *)
(* or tests for emptiness is a sequence of one-character strings.  A value *)
(* that may be null/undefined is None or Some(v).  Time is the millisecond *)
(* clock read by `new Date()` / `Date.now()`.  An identifier is a positive *)
(* integer; the k-th value returned by crypto.randomUUID() is named k.     *)
(***************************************************************************)
EXTENDS Integers, Sequences, FiniteSets, TLC

\* ------------------------------------------------------------------ bounds
MaxIds == 2        \* identifiers crypto.randomUUID() may hand out
MaxClock == 2      \* last millisecond of the clock
MaxToasts == 1     \* notifications in the queue at a time
MaxCalls == 4      \* calls sent to the server in a run
MaxQueue == 3      \* notifications in the queue of the provider on its own

\* --------------------------------------------------------------- constants
DeleteUndoDuration == 1000
ErrorToastDuration == 3000
DefaultToastDuration == 5000

\* ----------------------------------------------------------------- helpers
None == <<>>
Some(v) == <<v>>

Ids == 1 .. MaxIds
EmptyId == 0       \* the empty string given as an id

EmptyObject == [f \in {} |-> f]

\* { ...a, ...b }
Spread(a, b) ==
  [f \in DOMAIN a \cup DOMAIN b |-> IF f \in DOMAIN b THEN b[f] ELSE a[f]]

IsSpace(c) == c = " "

RECURSIVE TrimStart(_)
TrimStart(s) ==
  IF s # <<>> /\ IsSpace(Head(s)) THEN TrimStart(Tail(s)) ELSE s

RECURSIVE TrimEnd(_)
TrimEnd(s) ==
  IF s # <<>> /\ IsSpace(s[Len(s)])
  THEN TrimEnd(SubSeq(s, 1, Len(s) - 1))
  ELSE s

\* String.prototype.trim
Trim(s) == TrimEnd(TrimStart(s))

\* The texts typed into the new-todo field and into the edit field.
NewTitleInputs == { <<>>, <<" ", "a">> }
EditTitleInputs == { <<" ">>, <<"b", " ">> }
TitleInputs == NewTitleInputs \cup EditTitleInputs

\* ---------------------------------------------------------------- KV store
\* A faulty get that answers an absent key with an empty record.
KvGetOrEmpty(store, id) ==
  IF id \in DOMAIN store THEN Some(store[id]) ELSE Some(EmptyObject)

KvGet(store, id) == IF id \in DOMAIN store THEN Some(store[id]) ELSE None

KvPut(store, id, value) ==
  [k \in DOMAIN store \cup {id} |-> IF k = id THEN value ELSE store[k]]

\* A faulty delete that removes nothing.
KvDeleteKeeps(store, id) == store

KvDelete(store, id) == [k \in DOMAIN store \ {id} |-> store[k]]

\* ------------------------------------------------------------- REST facade
Response(status, body) == [status |-> status, body |-> body]

ResponseOk(resp) == resp.status \in 200 .. 299

RECURSIVE KeysInOrder(_)
KeysInOrder(keys) ==
  IF keys = {} THEN <<>>
  ELSE LET k == CHOOSE x \in keys : \A y \in keys : x <= y
       IN <<k>> \o KeysInOrder(keys \ {k})

\* GET /api/todos: every stored value with its key as the id, in key order.
TodosGet(store) ==
  LET keys == KeysInOrder(DOMAIN store)
  IN [i \in 1 .. Len(keys) |-> Spread(store[keys[i]], [id |-> keys[i]])]

\* A faulty create in which the fields of the request body win.
TodosPostRecordTrustsBody(body, id, now) ==
  Spread([id |-> id, completed |-> FALSE, createdAt |-> now], body)

\* POST /api/todos: the record that is stored and returned.
TodosPostRecord(body, id, now) ==
  Spread(body, [id |-> id, completed |-> FALSE, createdAt |-> now])

\* A faulty merge in which the stored fields win over the supplied ones.
TodosPutRecordKeepsOld(existing, updates, now) ==
  Spread(Spread(updates, existing), [updatedAt |-> now])

\* A faulty merge that stores the supplied fields alone.
TodosPutRecordPartial(existing, updates, now) ==
  Spread(updates, [updatedAt |-> now])

\* PUT /api/todos/:id: the merged record that is stored and returned.
TodosPutRecord(existing, updates, now) ==
  Spread(Spread(existing, updates), [updatedAt |-> now])

\* ------------------------------------------------------- action dispatcher
Throw(msg) == [kind |-> "throw", error |-> msg]

Fetch(method, id, body) ==
  [kind |-> "fetch", method |-> method, id |-> id, body |-> body]

\* `!x` for a string that may be undefined
Falsy(opt) == opt = None \/ opt[1] = <<>>

\* A faulty `!id` that lets the empty string through.
NoIdOnlyUndefined(opt) == opt = None

\* `!id` for an id that may be undefined
NoId(opt) == opt = None \/ opt[1] = EmptyId

\* `formData.get("title")?.toString().trim()`
CreateTitle(form) ==
  IF form.title = None THEN None ELSE Some(Trim(form.title[1]))

\* The `updates` object of case "update" as JSON.stringify sends it: a title
\* that is undefined is assigned (undefined !== null) and then left out of
\* the JSON text.
UpdateBody(form) ==
  Spread(
    Spread([id |-> form.id[1]],
           IF form.title # None THEN [title |-> form.title[1]] ELSE EmptyObject),
    IF form.completed # None
    THEN [completed |-> (form.completed[1] = "true")]
    ELSE EmptyObject)

\* The switch on intent up to the fetchApi call: the request it issues, or
\* the error it throws before issuing any.
ActionRequest(form, now) ==
  CASE form.intent = Some("create") ->
         IF Falsy(CreateTitle(form))
         THEN Throw(<<"Title is required">>)
         ELSE Fetch("POST", EmptyId,
                    [title |-> CreateTitle(form)[1], completed |-> FALSE,
                     createdAt |-> now])
    [] form.intent = Some("update") ->
         IF NoId(form.id)
         THEN Throw(<<"Todo ID is required">>)
         ELSE Fetch("PUT", form.id[1], UpdateBody(form))
    [] form.intent = Some("delete") ->
         IF NoId(form.id)
         THEN Throw(<<"Todo ID is required">>)
         ELSE Fetch("DELETE", form.id[1], EmptyObject)
    [] OTHER -> Throw(<<"Unknown intent">>)

\* The catch block's result.
ErrorResult(msg) == [intent |-> "error", data |-> [error |-> msg]]

SuccessResult(intent, data) ==
  [intent |-> intent, data |-> data, shouldRevalidate |-> FALSE]

\* The promise `action` returns rejects.
Rejected == [rejected |-> <<"formData">>]

FailedMessage(method, status) ==
  CASE method = "POST" -> <<"Failed to create todo", status>>
    [] method = "PUT" -> <<"Failed to update todo", status>>
    [] method = "DELETE" -> <<"Failed to delete todo", status>>

\* A faulty switch that never looks at response.ok.
ActionResultTrustsStatus(req, resp, jsonOk) ==
  CASE req.method = "POST" -> SuccessResult("create", resp.body)
    [] req.method = "PUT" -> SuccessResult("update", resp.body)
    [] req.method = "DELETE" -> SuccessResult("delete", [id |-> req.id])

\* The switch on intent from the response on.  jsonOk: response.json()
\* resolves.
ActionResult(req, resp, jsonOk) ==
  IF ~ResponseOk(resp) THEN ErrorResult(FailedMessage(req.method, resp.status))
  ELSE CASE req.method = "POST" ->
              IF jsonOk THEN SuccessResult("create", resp.body)
              ELSE ErrorResult(<<"Unexpected end of JSON input">>)
         [] req.method = "PUT" ->
              IF jsonOk THEN SuccessResult("update", resp.body)
              ELSE ErrorResult(<<"Invalid response from server">>)
         [] req.method = "DELETE" ->
              SuccessResult("delete", [id |-> req.id])

\* ------------------------------------------------------------------- state
VARIABLES
  kv,                 \* TODOS_KV: key -> stored record
  clock,              \* the millisecond clock
  nextId,             \* the next identifier crypto.randomUUID() returns
  inv,                \* the calls being served: slot -> call state
  calls,              \* the number of calls sent so far
  navigation,         \* useNavigation(): state, formData, pending actionData
  todos,              \* useState(initialTodos)
  editingTodoId,      \* useState(null)
  deletingTodoId,     \* useState(null)
  deletingTodoIdRef,  \* useRef(null)
  toasts,             \* ToastProvider: useState([])
  filter,             \* useState("all")
  animatingFilter,    \* useState(null)
  animationTimers,    \* the setTimeout callbacks of the count effect not run yet
  del                 \* history: the latest delete request and what became of it

server == <<kv, clock, nextId, inv, calls>>
animation == <<animatingFilter, animationTimers>>
view == <<navigation, todos, editingTodoId, deletingTodoId, deletingTodoIdRef,
          toasts, filter, animation, del>>
vars == <<kv, clock, nextId, inv, calls, navigation, todos,
          editingTodoId, deletingTodoId, deletingTodoIdRef, toasts, filter,
          animatingFilter, animationTimers, del>>

\* A slot holds one call of `action` (via "action") or one request sent to
\* the REST facade directly (via "rest"), from the moment it is sent to the
\* moment its caller has the result.
\* "nav": the action call of the page's current navigation; "old": the call of
\* a navigation that a later submit interrupted, still being served; "api":
\* a call by another client.
Slots == {"nav", "old", "api"}

Idle == [pc |-> "idle"]

Sent(call) == [pc |-> "sent", call |-> call]

Got(call, req, existing, nreq) ==
  [pc |-> "got", call |-> call, req |-> req, existing |-> existing,
   nreq |-> nreq]

Done(call, result, nreq, fault) ==
  [pc |-> "done", call |-> call, result |-> result, nreq |-> nreq,
   fault |-> fault]

ActionCall(form) == [via |-> "action", form |-> form]

RestCall(req) == [via |-> "rest", req |-> req]

\* What the caller gets for response `resp` to request `req` of `call`.
CallResult(call, req, resp, jsonOk) ==
  IF call.via = "action" THEN ActionResult(req, resp, jsonOk) ELSE resp

Faults == {"none", "kv", "fetch", "json"}

\* The page's action runs in the worker and reaches the facade through
\* context.fetchInternal, in process: only the store can fail.
PageFaults == {"none", "kv"}

\* A call runs up to and including the first store operation of the REST
\* handler it reaches.  fault "kv": the store operation throws (the handler
\* answers 500); "fetch": fetchApi rejects before the facade ran; "json":
\* response.json() rejects.
ServedFirst(c, store, now, id, fault) ==
  LET call == c.call
      parsed == call.via = "rest" \/ call.form.parses
      req == IF call.via = "rest" THEN call.req
             ELSE IF parsed THEN ActionRequest(call.form, now)
             ELSE Throw(<<"formData">>)
      kvOk == fault # "kv"
      jsonOk == fault # "json"
      failed == Response(500, [error |-> <<"Failed">>])
      notFound == Response(404, [error |-> <<"TODO not found">>])
      result(resp) == CallResult(call, req, resp, jsonOk)
  IN CASE ~parsed ->
            [kv |-> store, inv |-> Done(call, Rejected, 0, "none"),
             used |-> FALSE]
       [] parsed /\ req.kind = "throw" ->
            [kv |-> store,
             inv |-> Done(call, ErrorResult(req.error), 0, "none"),
             used |-> FALSE]
       [] parsed /\ req.kind = "fetch" /\ fault = "fetch" ->
            [kv |-> store,
             inv |-> Done(call, ErrorResult(<<"fetch failed">>), 1, fault),
             used |-> FALSE]
       [] parsed /\ req.kind = "fetch" /\ fault # "fetch" /\ ~kvOk ->
            [kv |-> store, inv |-> Done(call, result(failed), 1, fault),
             used |-> FALSE]
       [] parsed /\ req.kind = "fetch" /\ fault # "fetch" /\ kvOk
            /\ req.method = "POST" ->
            LET newTodo == TodosPostRecord(req.body, id, now)
            IN [kv |-> KvPut(store, id, newTodo),
                inv |-> Done(call, result(Response(201, newTodo)), 1, fault),
                used |-> TRUE]
       [] parsed /\ req.kind = "fetch" /\ fault # "fetch" /\ kvOk
            /\ req.method = "DELETE" ->
            [kv |-> KvDelete(store, req.id),
             inv |-> Done(call, result(Response(200, [success |-> TRUE])), 1,
                          fault),
             used |-> FALSE]
       [] parsed /\ req.kind = "fetch" /\ fault # "fetch" /\ kvOk
            /\ req.method = "PUT" ->
            LET existing == KvGet(store, req.id)
            IN IF existing = None
               THEN [kv |-> store,
                     inv |-> Done(call, result(notFound), 1, fault),
                     used |-> FALSE]
               ELSE [kv |-> store, inv |-> Got(call, req, existing[1], 1),
                     used |-> FALSE]

\* The rest of PUT /api/todos/:id: the merged record is written back.
ServedWrite(c, store, now, fault) ==
  LET kvOk == fault # "kv"
      jsonOk == fault # "json"
      updatedTodo == TodosPutRecord(c.existing, c.req.body, now)
      result(resp) == CallResult(c.call, c.req, resp, jsonOk)
  IN IF kvOk
     THEN [kv |-> KvPut(store, c.req.id, updatedTodo),
           inv |-> Done(c.call, result(Response(200, updatedTodo)), c.nreq,
                        fault)]
     ELSE [kv |-> store,
           inv |-> Done(c.call,
                        result(Response(500, [error |-> <<"Failed">>])),
                        c.nreq, fault)]

\* ----------------------------------------------------------------- inputs
Form(parses, intent, id, title, completed) ==
  [parses |-> parses, intent |-> intent, id |-> id, title |-> title,
   completed |-> completed]

OptIds == {None} \cup {Some(i) : i \in {EmptyId} \cup Ids}
OptTitles == {None} \cup {Some(t) : t \in TitleInputs}
OptCompleted == {None, Some("true"), Some("false")}

\* Forms a client may post to the route.
ApiForms ==
  {Form(FALSE, None, None, None, None)}
    \cup {Form(TRUE, i, None, None, None) : i \in {None, Some("bogus")}}
    \cup {Form(TRUE, Some("create"), None, t, None) : t \in OptTitles}
    \cup {Form(TRUE, Some("update"), i, t, c) :
            i \in OptIds, t \in {None, Some(<<>>), Some(<<" ", "b">>)},
            c \in OptCompleted}
    \cup {Form(TRUE, Some("delete"), i, None, None) : i \in OptIds}

\* Bodies a client may send with PUT /api/todos/i.
PutBodies(i) ==
  {[completed |-> TRUE], [title |-> <<"b">>],
   [title |-> <<"b">>, completed |-> FALSE, id |-> (i % MaxIds) + 1],
   [createdAt |-> 0]}

\* Requests a client may send to the REST facade directly.
ApiRequests ==
  {Fetch("POST", EmptyId,
         [title |-> <<"a">>, completed |-> TRUE, id |-> 1, createdAt |-> 0])}
    \cup UNION {{Fetch("PUT", i, b) : b \in PutBodies(i)} : i \in Ids}
    \cup {Fetch("DELETE", i, EmptyObject) : i \in Ids}

ApiCalls ==
  {ActionCall(f) : f \in ApiForms} \cup {RestCall(r) : r \in ApiRequests}

\* ------------------------------------------------------------ toast queue
Randoms == {0}  \* values of Math.floor(Math.random() * 10000)

\* A faulty addToast that puts the notification in front.
AddToastInFront(queue, toast, now, rnd) ==
  <<Spread(toast, [id |-> IF "id" \in DOMAIN toast /\ toast.id # <<>>
                          THEN toast.id
                          ELSE <<"toast", now, rnd>>])>> \o queue

\* A faulty addToast that keeps the duration it is given, 0 for none.
AddToastNoDefault(queue, toast, now, rnd) ==
  Append(queue,
         Spread(toast,
                [id |-> IF "id" \in DOMAIN toast /\ toast.id # <<>>
                        THEN toast.id
                        ELSE <<"toast", now, rnd>>,
                 duration |-> IF "duration" \in DOMAIN toast
                              THEN toast.duration
                              ELSE 0]))

\* addToast.  The createdAt it stamps is read nowhere and is left out.
AddToast(queue, toast, now, rnd) ==
  Append(queue,
         Spread(toast,
                [id |-> IF "id" \in DOMAIN toast /\ toast.id # <<>>
                        THEN toast.id
                        ELSE <<"toast", now, rnd>>,
                 duration |-> IF "duration" \in DOMAIN toast
                                 /\ toast.duration # 0
                              THEN toast.duration
                              ELSE DefaultToastDuration]))

\* removeToast
RemoveToast(queue, id) == SelectSeq(queue, LAMBDA t : t.id # id)

\* A faulty removeToastById that leaves the queue as it is.
RemoveToastByIdKeeps(queue, id) == queue

\* removeToastById
RemoveToastById(queue, id) == SelectSeq(queue, LAMBDA t : t.id # id)

\* `todo-delete-${id}`
DeleteToastId(id) == <<"todo-delete", id>>

\* The toast handleDeleteTodo adds: its action and its onDismiss close over id.
DeleteToast(id) ==
  [id |-> DeleteToastId(id), title |-> "Todo Deleted",
   duration |-> DeleteUndoDuration, action |-> id, onDismiss |-> id]

ErrorToast(msg) ==
  [title |-> "Error", description |-> msg, duration |-> ErrorToastDuration]

\* -------------------------------------------------------------------- page
IdleNavigation == [state |-> "idle"]

\* A faulty shouldRevalidate that never asks for the data again.
ShouldRevalidateNever(actionResult, defaultShouldRevalidate) == FALSE

\* A faulty shouldRevalidate that always asks for the data again.
ShouldRevalidateAlways(actionResult, defaultShouldRevalidate) == TRUE

\* shouldRevalidate({actionResult, defaultShouldRevalidate})
ShouldRevalidate(actionResult, defaultShouldRevalidate) ==
  IF "shouldRevalidate" \in DOMAIN actionResult
     /\ actionResult.shouldRevalidate = FALSE
  THEN FALSE
  ELSE defaultShouldRevalidate

TodoIds(list) == {list[i].id : i \in 1 .. Len(list)}

\* String(newCompleted)
BoolText(b) == IF b THEN "true" ELSE "false"

\* A faulty merge that spreads the updated todo over every record.
MergeUpdatedAll(list, updatedTodo) ==
  [i \in 1 .. Len(list) |-> Spread(list[i], updatedTodo)]

\* prevTodos.map(todo => todo.id === updatedTodo.id ? {...todo, ...updatedTodo} : todo)
MergeUpdated(list, updatedTodo) ==
  [i \in 1 .. Len(list) |->
     IF "id" \in DOMAIN updatedTodo /\ list[i].id = updatedTodo.id
     THEN Spread(list[i], updatedTodo)
     ELSE list[i]]

\* prevTodos.filter(todo => todo.id !== actionData.data.id)
WithoutTodo(list, id) == SelectSeq(list, LAMBDA t : t.id # id)

\* The effect on [actionData, navigation.state], run with navigation idle:
\* v holds the page's state, the result is v after the effect.
ActionDataEffect(r, v, now, rnd) ==
  CASE r.intent = "error" ->
         [v EXCEPT !.toasts = AddToast(v.toasts, ErrorToast(r.data.error),
                                       now, rnd)]
    [] r.intent = "delete" ->
         [v EXCEPT !.todos = WithoutTodo(v.todos, r.data.id),
                   !.deletingTodoId = None,
                   !.deletingTodoIdRef = None]
    [] r.intent = "update" ->
         [v EXCEPT !.todos = MergeUpdated(v.todos, r.data),
                   !.editingTodoId = None]
    [] r.intent = "create" ->
         [v EXCEPT !.todos = Append(v.todos, r.data)]

Filters == {"all", "active", "completed"}

\* A faulty sort that leaves the list in the order it is held.
SortedAsHeld(list) == list

\* sortedTodos: the local list, the newest first; Array.prototype.sort is
\* stable.
RECURSIVE SortedByCreatedAt(_)
SortedByCreatedAt(list) ==
  IF list = <<>> THEN <<>>
  ELSE LET n == Len(list)
           rest == SortedByCreatedAt(SubSeq(list, 1, n - 1))
           k == Cardinality({i \in 1 .. n - 1 :
                               rest[i].createdAt >= list[n].createdAt})
       IN SubSeq(rest, 1, k) \o <<list[n]>> \o SubSeq(rest, k + 1, n - 1)

SortedTodos == SortedByCreatedAt(todos)

\* The todo passes the selected filter.
Shown(todo) ==
  CASE filter = "active" -> ~todo.completed
    [] filter = "completed" -> todo.completed
    [] OTHER -> TRUE

\* filteredTodos: the todos the list renders.
FilteredTodos == SelectSeq(SortedTodos, Shown)

\* The todo with this id is rendered.
Rendered(id) ==
  \E i \in 1 .. Len(FilteredTodos) : FilteredTodos[i].id = id

IsActive(todo) == ~todo.completed

IsCompleted(todo) == todo.completed

\* The count on the All button.
CountAll == Len(SortedTodos)

\* A faulty count on the Active button, taken from the rendered todos.
CountActiveOfRendered == Len(SelectSeq(FilteredTodos, IsActive))

\* The count on the Active button.
CountActive == Len(SelectSeq(SortedTodos, IsActive))

\* The count on the Completed button.
CountCompleted == Len(SelectSeq(SortedTodos, IsCompleted))

\* currentCounts of the count effect for a local list.
CountsOf(list) ==
  LET sorted == SortedByCreatedAt(list)
  IN [all |-> Len(sorted),
      active |-> Len(SelectSeq(sorted, IsActive)),
      completed |-> Len(SelectSeq(sorted, IsCompleted))]

\* The effect on [sortedTodos, filter]: prevCounts are the counts of its last
\* run (prevCountsRef.current), a holds animatingFilter and the timers set.
CountEffect(prevCounts, currentCounts, f, a) ==
  IF prevCounts.all # 0 /\ f = "completed"
     /\ currentCounts.active > prevCounts.active
  THEN [animatingFilter |-> Some("active"), timers |-> a.timers + 1]
  ELSE IF prevCounts.all # 0 /\ f = "active"
          /\ currentCounts.completed > prevCounts.completed
  THEN [animatingFilter |-> Some("completed"), timers |-> a.timers + 1]
  ELSE a

PageState ==
  [todos |-> todos, editingTodoId |-> editingTodoId,
   deletingTodoId |-> deletingTodoId,
   deletingTodoIdRef |-> deletingTodoIdRef, toasts |-> toasts]

SetPageState(v) ==
  /\ todos' = v.todos
  /\ LET a == CountEffect(CountsOf(todos), CountsOf(v.todos), filter,
                          [animatingFilter |-> animatingFilter,
                           timers |-> animationTimers])
     IN /\ animatingFilter' = a.animatingFilter
        /\ animationTimers' = a.timers
  /\ editingTodoId' = v.editingTodoId
  /\ deletingTodoId' = v.deletingTodoId
  /\ deletingTodoIdRef' = v.deletingTodoIdRef
  /\ toasts' = v.toasts

\* Creates sent and not yet served: each will take an identifier.
PendingCreates ==
  Cardinality({s \in Slots :
                 /\ inv[s].pc = "sent"
                 /\ inv[s].call.via = "action"
                 /\ inv[s].call.form.intent = Some("create")})

\* submit(formData, {method: "post", action: "/todos"}): a new navigation
\* starts.  A navigation still pending is interrupted: its action call, if
\* the server has not answered it yet, goes on being served with nobody
\* waiting for its result.
Submit(form) ==
  /\ calls < MaxCalls
  /\ calls' = calls + 1
  /\ navigation' = [state |-> "submitting", formData |-> form]
  /\ inv' = [inv EXCEPT
               !["nav"] = Sent(ActionCall(form)),
               !["old"] = IF inv["nav"].pc \in {"sent", "got"}
                          THEN inv["nav"]
                          ELSE inv["old"]]

\* The history of the delete request the result r of form belongs to.
DelSettled(r, form) ==
  IF form.intent = Some("delete") /\ form.id = del.id
  THEN [del EXCEPT !.status = IF r.intent = "delete" THEN "done" ELSE "failed"]
  ELSE del

\* ----------------------------------------------------------------- actions
Init ==
  /\ kv = EmptyObject
  /\ clock = 1
  /\ nextId = 1
  /\ inv = [s \in Slots |-> Idle]
  /\ calls = 0
  /\ navigation = IdleNavigation
  /\ todos = TodosGet(kv)
  /\ editingTodoId = None
  /\ deletingTodoId = None
  /\ deletingTodoIdRef = None
  /\ toasts = <<>>
  /\ filter = "all"
  /\ animatingFilter = None
  /\ animationTimers = 0
  /\ del = [id |-> None, status |-> "none", intents |-> 0]

Tick ==
  /\ clock < MaxClock
  /\ clock' = clock + 1
  /\ UNCHANGED <<kv, nextId, inv, calls, view>>

\* A call in slot s is served up to its first store operation.  The result
\* of an interrupted navigation's call is dropped.
ServerBegin(s, faults) ==
  /\ inv[s].pc = "sent"
  /\ \E fault \in faults :
       /\ inv[s].call.via = "rest" => fault \in {"none", "kv"}
       /\ LET r == ServedFirst(inv[s], kv, clock, nextId, fault)
          IN /\ r.used => nextId <= MaxIds
             /\ kv' = r.kv
             /\ inv' = [inv EXCEPT
                          ![s] = IF s = "old" /\ r.inv.pc = "done"
                                 THEN Idle
                                 ELSE r.inv]
             /\ nextId' = IF r.used THEN nextId + 1 ELSE nextId
  /\ UNCHANGED <<clock, calls, view>>

\* A PUT in slot s that has read the existing record writes the merged one.
ServerPutWrite(s, faults) ==
  /\ inv[s].pc = "got"
  /\ \E fault \in faults \ {"fetch"} :
       /\ inv[s].call.via = "rest" => fault \in {"none", "kv"}
       /\ LET r == ServedWrite(inv[s], kv, clock, fault)
          IN /\ kv' = r.kv
             /\ inv' = [inv EXCEPT ![s] = IF s = "old" THEN Idle ELSE r.inv]
  /\ UNCHANGED <<clock, nextId, calls, view>>

\* The server stops serving the call of an interrupted navigation (the
\* client has disconnected).
ServerAbandons ==
  /\ inv["old"].pc \in {"sent", "got"}
  /\ inv' = [inv EXCEPT !["old"] = Idle]
  /\ UNCHANGED <<kv, clock, nextId, calls, view>>

\* Another client posts a form to the route or calls the REST facade.
ApiSend(sent) ==
  /\ inv["api"] = Idle
  /\ calls < MaxCalls
  /\ calls' = calls + 1
  /\ \E call \in sent : inv' = [inv EXCEPT !["api"] = Sent(call)]
  /\ UNCHANGED <<kv, clock, nextId, view>>

\* That client has its result.
ApiReturn ==
  /\ inv["api"].pc = "done"
  /\ inv' = [inv EXCEPT !["api"] = Idle]
  /\ UNCHANGED <<kv, clock, nextId, calls, view>>

\* handleAddTodo, reached through the form: the Add button is disabled
\* unless navigation is idle and the text is not blank.
HandleAddTodo ==
  \E newTodoTitle \in NewTitleInputs :
    /\ navigation.state = "idle" /\ Trim(newTodoTitle) # <<>>
    /\ ~(Trim(newTodoTitle) = <<>> \/ navigation.state = "submitting")
    /\ nextId + PendingCreates <= MaxIds
    /\ Submit(Form(TRUE, Some("create"), None, Some(Trim(newTodoTitle)), None))
    /\ UNCHANGED <<kv, clock, nextId, todos, editingTodoId, deletingTodoId,
                   deletingTodoIdRef, toasts, del, filter, animation>>

\* handleToggleComplete(todo.id, todo.completed) of a listed todo.
HandleToggleComplete ==
  \E i \in 1 .. Len(todos) :
    /\ navigation.state = "idle"
    /\ Shown(todos[i])
    /\ Submit(Form(TRUE, Some("update"), Some(todos[i].id), None,
                   Some(BoolText(~todos[i].completed))))
    /\ UNCHANGED <<kv, clock, nextId, todos, editingTodoId, deletingTodoId,
                   deletingTodoIdRef, toasts, del, filter, animation>>

\* handleEditTodo(todo): the Edit button of a todo that is not being edited.
HandleEditTodo ==
  \E i \in 1 .. Len(todos) :
    /\ navigation.state = "idle"
    /\ Shown(todos[i])
    /\ editingTodoId # Some(todos[i].id)
    /\ editingTodoId' = Some(todos[i].id)
    /\ UNCHANGED <<server, navigation, todos, deletingTodoId,
                   deletingTodoIdRef, toasts, del, filter, animation>>

\* handleSaveEdit: the Save button or Enter in the edit field of the todo
\* being edited.
HandleSaveEdit ==
  \E editTodoTitle \in EditTitleInputs :
    /\ navigation.state = "idle"
    /\ editingTodoId # None /\ Rendered(editingTodoId[1])
    /\ ~(editingTodoId = None \/ Trim(editTodoTitle) = <<>>
         \/ navigation.state # "idle")
    /\ Submit(Form(TRUE, Some("update"), editingTodoId,
                   Some(Trim(editTodoTitle)), None))
    /\ UNCHANGED <<kv, clock, nextId, todos, editingTodoId, deletingTodoId,
                   deletingTodoIdRef, toasts, del, filter, animation>>

\* handleCancelEdit: the Cancel button or Escape in the edit field.
HandleCancelEdit ==
  /\ navigation.state = "idle"
  /\ editingTodoId # None /\ Rendered(editingTodoId[1])
  /\ editingTodoId' = None
  /\ UNCHANGED <<server, navigation, todos, deletingTodoId, deletingTodoIdRef,
                 toasts, del, filter, animation>>

\* A faulty handleDeleteTodo that submits the delete intent at once instead of
\* opening the undo window.
HandleDeleteTodoAtOnce ==
  \E i \in 1 .. Len(todos) :
    LET id == todos[i].id
    IN /\ navigation.state = "idle"
       /\ Shown(todos[i])
       /\ editingTodoId # Some(id)
       /\ deletingTodoId = None
       /\ deletingTodoIdRef' = Some(id)
       /\ deletingTodoId' = Some(id)
       /\ Submit(Form(TRUE, Some("delete"), Some(id), None, None))
       /\ del' = [id |-> Some(id), status |-> "open", intents |-> 0]
       /\ UNCHANGED <<kv, clock, nextId, todos, editingTodoId, toasts, filter,
            animation>>

\* A faulty handleDeleteTodo without `if (deletingTodoId) return`.
HandleDeleteTodoUnguarded ==
  \E i \in 1 .. Len(todos) :
    LET id == todos[i].id
    IN /\ navigation.state = "idle"
       /\ Shown(todos[i])
       /\ editingTodoId # Some(id)
       /\ Len(toasts) < MaxToasts
       /\ deletingTodoIdRef' = Some(id)
       /\ deletingTodoId' = Some(id)
       /\ \E rnd \in Randoms :
            toasts' = AddToast(toasts, DeleteToast(id), clock, rnd)
       /\ del' = [id |-> Some(id), status |-> "open", intents |-> 0]
       /\ UNCHANGED <<server, navigation, todos, editingTodoId, filter, animation>>

\* handleDeleteTodo(todo.id): the Delete button of a todo that is not being
\* edited.
HandleDeleteTodo ==
  \E i \in 1 .. Len(todos) :
    LET id == todos[i].id
    IN /\ navigation.state = "idle"
       /\ Shown(todos[i])
       /\ editingTodoId # Some(id)
       /\ deletingTodoId = None
       /\ Len(toasts) < MaxToasts
       /\ deletingTodoIdRef' = Some(id)
       /\ deletingTodoId' = Some(id)
       /\ \E rnd \in Randoms :
            toasts' = AddToast(toasts, DeleteToast(id), clock, rnd)
       /\ del' = [id |-> Some(id), status |-> "open", intents |-> 0]
       /\ UNCHANGED <<server, navigation, todos, editingTodoId, filter, animation>>

\* The Undo button of a toast: toast.action.onClick, that is
\* handleUndoDelete(id).
HandleUndoDelete ==
  \E k \in 1 .. Len(toasts) :
    /\ "action" \in DOMAIN toasts[k]
    /\ LET id == toasts[k].action
       IN /\ deletingTodoIdRef' = None
          /\ deletingTodoId' = None
          /\ toasts' = RemoveToastById(toasts, DeleteToastId(id))
          /\ del' = IF del.id = Some(id)
                    THEN [del EXCEPT !.status = "undone"]
                    ELSE del
    /\ UNCHANGED <<server, navigation, todos, editingTodoId, filter, animation>>

\* An onDismiss that is never called.
OnDismissNeverCalled(toast) == FALSE

\* The onDismiss handleDeleteTodo gives its toast submits the delete intent
\* if the todo is still the one pending deletion.
OnDismissSubmits(toast) ==
  "onDismiss" \in DOMAIN toast /\ deletingTodoIdRef = Some(toast.onDismiss)

\* GlobalToast.handleDismiss(toast) of a toast that only notifies, or whose
\* onDismiss finds nothing to delete: the toast's time is up or it is
\* closed.
HandleDismiss ==
  \E k \in 1 .. Len(toasts) :
    /\ ~OnDismissSubmits(toasts[k])
    /\ toasts' = RemoveToast(toasts, toasts[k].id)
    /\ del' = IF "onDismiss" \in DOMAIN toasts[k]
                 /\ del.id = Some(toasts[k].onDismiss)
              THEN [del EXCEPT !.status = "lapsed"]
              ELSE del
    /\ UNCHANGED <<server, navigation, todos, editingTodoId, deletingTodoId,
                   deletingTodoIdRef, filter, animation>>

\* GlobalToast.handleDismiss(toast) of a delete toast whose todo is still
\* pending deletion: onDismiss submits the delete intent, then the toast is
\* removed.
HandleDismissDelete ==
  \E k \in 1 .. Len(toasts) :
    /\ OnDismissSubmits(toasts[k])
    /\ Submit(Form(TRUE, Some("delete"), Some(toasts[k].onDismiss), None,
                   None))
    /\ toasts' = RemoveToast(toasts, toasts[k].id)
    /\ del' = IF del.id = Some(toasts[k].onDismiss)
              THEN [del EXCEPT !.status = "fired",
                               !.intents = IF @ < 2 THEN @ + 1 ELSE @]
              ELSE del
    /\ UNCHANGED <<kv, clock, nextId, todos, editingTodoId, deletingTodoId,
                   deletingTodoIdRef, filter, animation>>

\* The action of the current navigation has returned a result that asks for
\* no revalidation: the navigation completes and the effect applies the
\* result.
NavCompletes ==
  /\ navigation.state = "submitting"
  /\ inv["nav"].pc = "done"
  /\ "intent" \in DOMAIN inv["nav"].result
  /\ ~ShouldRevalidate(inv["nav"].result, TRUE)
  /\ \E rnd \in Randoms :
       SetPageState(ActionDataEffect(inv["nav"].result, PageState, clock, rnd))
  /\ Len(toasts') <= MaxToasts
  /\ del' = DelSettled(inv["nav"].result, navigation.formData)
  /\ navigation' = IdleNavigation
  /\ inv' = [inv EXCEPT !["nav"] = Idle]
  /\ UNCHANGED <<kv, clock, nextId, calls, filter>>

\* The action has returned a result that leaves revalidation to the default:
\* the navigation goes on to load the route's data again.
NavRevalidates ==
  /\ navigation.state = "submitting"
  /\ inv["nav"].pc = "done"
  /\ "intent" \in DOMAIN inv["nav"].result
  /\ ShouldRevalidate(inv["nav"].result, TRUE)
  /\ navigation' = [state |-> "loading", formData |-> navigation.formData,
                    actionData |-> inv["nav"].result]
  /\ inv' = [inv EXCEPT !["nav"] = Idle]
  /\ UNCHANGED <<kv, clock, nextId, calls, todos, editingTodoId, deletingTodoId,
                 deletingTodoIdRef, toasts, del, filter, animation>>

\* The loader has run again: the navigation completes, the effect on
\* [initialTodos] resets the list and then the effect on actionData runs.
NavLoaded ==
  /\ navigation.state = "loading"
  /\ \E rnd \in Randoms :
       SetPageState(ActionDataEffect(navigation.actionData,
                                     [PageState EXCEPT !.todos = TodosGet(kv)],
                                     clock, rnd))
  /\ Len(toasts') <= MaxToasts
  /\ del' = DelSettled(navigation.actionData, navigation.formData)
  /\ navigation' = IdleNavigation
  /\ UNCHANGED <<server, filter>>

NextPage ==
  \/ HandleAddTodo
  \/ HandleToggleComplete
  \/ HandleEditTodo
  \/ HandleSaveEdit
  \/ HandleCancelEdit
  \/ HandleDeleteTodo
  \/ HandleUndoDelete
  \/ HandleDismiss
  \/ HandleDismissDelete
  \/ NavCompletes
  \/ NavRevalidates
  \/ NavLoaded

NextServer ==
  \/ Tick
  \/ ServerBegin("nav", PageFaults)
  \/ ServerPutWrite("nav", PageFaults)
  \/ ServerBegin("old", PageFaults)
  \/ ServerPutWrite("old", PageFaults)
  \/ ServerAbandons

\* One page session and the server, no other client.
Next == NextPage \/ NextServer

Spec == Init /\ [][Next]_vars

\* The dispatcher and the REST facade called by a client, no page.
NextApi ==
  \/ Tick
  \/ ApiSend(ApiCalls)
  \/ ServerBegin("api", Faults)
  \/ ServerPutWrite("api", Faults)
  \/ ApiReturn

SpecApi == Init /\ [][NextApi]_vars

\* The DELETE requests another client may send to the REST facade.
DeleteRequests == {RestCall(Fetch("DELETE", i, EmptyObject)) : i \in Ids}

\* One page session and another client that deletes records.
NextShared ==
  \/ NextPage
  \/ NextServer
  \/ ApiSend(DeleteRequests)
  \/ ServerBegin("api", PageFaults)
  \/ ApiReturn

SpecShared == Init /\ [][NextShared]_vars

\* setFilter(f): a filter button; the buttons are rendered when the list is
\* not empty.
SetFilter ==
  /\ Len(SortedTodos) > 0
  /\ \E f \in Filters : filter' = f
  /\ UNCHANGED <<server, navigation, todos, editingTodoId, deletingTodoId,
                 deletingTodoIdRef, toasts, del, animation>>

\* A callback the count effect has set with setTimeout(..., 600) runs:
\* setAnimatingFilter(null).
AnimationTimerFires ==
  /\ animationTimers > 0
  /\ animationTimers' = animationTimers - 1
  /\ animatingFilter' = None
  /\ UNCHANGED <<server, navigation, todos, editingTodoId, deletingTodoId,
                 deletingTodoIdRef, toasts, filter, del>>

\* The page session with its filter buttons, and the server.
NextView ==
  \/ NextPage
  \/ NextServer
  \/ SetFilter
  \/ AnimationTimerFires

SpecView == Init /\ [][NextView]_vars

\* The notifications a caller may hand to addToast: with an id, without
\* one, and with the empty string as the id.
ToastInputs ==
  {DeleteToast(i) : i \in Ids}
    \cup {ErrorToast(<<"Failed">>), [title |-> "Note", id |-> <<>>],
          [title |-> "Zero", duration |-> 0]}

\* The ids a caller may hand to removeToast and removeToastById.
ToastIds ==
  {DeleteToastId(i) : i \in Ids}
    \cup {<<"toast", c, r>> : c \in 1 .. MaxClock, r \in Randoms}

ToastAdd ==
  /\ Len(toasts) < MaxQueue
  /\ \E toast \in ToastInputs, rnd \in Randoms :
       toasts' = AddToast(toasts, toast, clock, rnd)
  /\ UNCHANGED <<server, navigation, todos, editingTodoId, deletingTodoId,
                 deletingTodoIdRef, del, filter, animation>>

ToastRemove ==
  /\ \E id \in ToastIds : toasts' = RemoveToast(toasts, id)
  /\ UNCHANGED <<server, navigation, todos, editingTodoId, deletingTodoId,
                 deletingTodoIdRef, del, filter, animation>>

ToastRemoveById ==
  /\ \E id \in ToastIds : toasts' = RemoveToastById(toasts, id)
  /\ UNCHANGED <<server, navigation, todos, editingTodoId, deletingTodoId,
                 deletingTodoIdRef, del, filter, animation>>

\* The ToastProvider on its own, called by any component.
NextToast ==
  \/ Tick
  \/ ToastAdd
  \/ ToastRemove
  \/ ToastRemoveById

SpecToast == Init /\ [][NextToast]_vars

\* The timer of the rendered toast with this id fires (Radix closes the
\* toast after toast.duration, onOpenChange(false)): GlobalToast.handleDismiss
\* calls the toast's onDismiss, if it has one, and then removeToast.
ToastExpires(id) ==
  /\ \E k \in 1 .. Len(toasts) :
       /\ toasts[k].id = id
       /\ toasts[k].duration > 0
       /\ del' = IF "onDismiss" \in DOMAIN toasts[k]
                 THEN [id |-> Some(toasts[k].onDismiss), status |-> "lapsed",
                       intents |-> 0]
                 ELSE del
  /\ toasts' = RemoveToast(toasts, id)
  /\ UNCHANGED <<server, navigation, todos, editingTodoId, deletingTodoId,
                 deletingTodoIdRef, filter, animation>>

ToastTimerFires == \E id \in ToastIds : ToastExpires(id)

\* The ToastProvider and GlobalToast with the timers of the toasts.
NextToastLive ==
  \/ Tick
  \/ ToastAdd
  \/ ToastTimerFires
  \/ ToastRemoveById

\* Every toast has its own timer, and a timer that is due fires.
SpecToastLive ==
  /\ Init
  /\ [][NextToastLive]_vars
  /\ \A id \in ToastIds : WF_vars(ToastExpires(id))

\* ---------------------------------------------------------- mock-data route
\* File names and path segments are sequences of characters.
Letters == {"a", "d", "j", "n", "o", "s", "t", "x", "Z"}

Digits == {"0", "1"}

\* [a-zA-Z0-9-]
IsNameChar(ch) == ch \in Letters \cup Digits \cup {"-"}

JsonSuffix == <<".", "j", "s", "o", "n">>

\* filename.endsWith(".json")
EndsWithJson(filename) ==
  /\ Len(filename) >= Len(JsonSuffix)
  /\ SubSeq(filename, Len(filename) - Len(JsonSuffix) + 1, Len(filename))
       = JsonSuffix

\* /^[a-zA-Z0-9-]+(\.json)?$/.test(filename)
ValidFilename(filename) ==
  LET stem == IF EndsWithJson(filename)
              THEN SubSeq(filename, 1, Len(filename) - Len(JsonSuffix))
              ELSE filename
      whole == Len(filename) > 0
                 /\ \A i \in 1 .. Len(filename) : IsNameChar(filename[i])
  IN IF whole THEN TRUE
     ELSE /\ EndsWithJson(filename)
          /\ Len(stem) > 0
          /\ \A i \in 1 .. Len(stem) : IsNameChar(stem[i])

\* filename.endsWith(".json") ? filename : `${filename}.json`
NormalizedFilename(filename) ==
  IF EndsWithJson(filename) THEN filename ELSE filename \o JsonSuffix

\* The values of c.env.MOCK_API, each with its type.
MockApiValues == {"true:boolean", "false:boolean", "true:string", "undefined"}

MockData(name) == [kind |-> "data", data |-> [file |-> name]]

\* A faulty loadMockData that checks the file name before MOCK_API.
LoadMockDataChecksNameFirst(env, filename) ==
  IF ~ValidFilename(filename) THEN Throw("Invalid filename")
  ELSE IF env.MOCK_API # "true:boolean" THEN Throw("Mock API is disabled")
  ELSE LET name == NormalizedFilename(filename)
       IN IF name \in env.modules THEN MockData(name)
          ELSE Throw("File not found")

\* loadMockData(c, filename).  env.ASSETS is None or Some of the binding: the
\* files it serves, and whether its fetch throws.
LoadMockData(env, filename) ==
  IF env.MOCK_API # "true:boolean" THEN Throw("Mock API is disabled")
  ELSE IF ~ValidFilename(filename) THEN Throw("Invalid filename")
  ELSE LET name == NormalizedFilename(filename)
       IN IF env.ASSETS # None /\ env.ASSETS[1].throws
          THEN Throw("fetch failed")
          ELSE IF env.ASSETS # None /\ name \in env.ASSETS[1].files
          THEN MockData(name)
          ELSE IF name \in env.modules THEN MockData(name)
          ELSE Throw("File not found")

\* app.get("/api/:filename")
MockRoute(env, filename) ==
  LET loaded == LoadMockData(env, filename)
  IN IF loaded.kind = "data" THEN Response(200, loaded.data)
     ELSE IF loaded.error = "Invalid filename"
     THEN Response(400, [error |-> loaded.error])
     ELSE IF loaded.error = "Mock API is disabled"
     THEN Response(403, [error |-> loaded.error])
     ELSE Response(404, [error |-> "File not found"])

TodosSegment == <<"t", "o", "d", "o", "s">>

\* todos.get("/")
TodosList(store, fault) ==
  IF fault = "kv" THEN Response(500, [error |-> <<"Failed">>])
  ELSE Response(200, TodosGet(store))

\* The app's routes for a GET, in the order they are registered:
\* app.route("/api/todos", todos), then app.get("/api/:filename"), then
\* app.all("*").
AppGet(env, store, path, fault) ==
  IF path = <<"api", TodosSegment>>
  THEN [route |-> "todos", resp |-> TodosList(store, fault)]
  ELSE IF Len(path) = 2 /\ path[1] = "api"
  THEN [route |-> "mock", resp |-> MockRoute(env, path[2])]
  ELSE [route |-> "page", resp |-> Response(200, [page |-> path])]

MockFiles == {<<"a">> \o JsonSuffix, TodosSegment \o JsonSuffix}

MockAssets ==
  {None, Some([files |-> {}, throws |-> FALSE]),
   Some([files |-> {<<"a">> \o JsonSuffix}, throws |-> FALSE]),
   Some([files |-> {<<"a">> \o JsonSuffix}, throws |-> TRUE])}

MockEnvs ==
  {[MOCK_API |-> v, ASSETS |-> a, modules |-> m] :
     v \in MockApiValues, a \in MockAssets, m \in {{}, MockFiles}}

MockFilenames ==
  {TodosSegment, <<"a">>, <<"a">> \o JsonSuffix, <<"x", "-", "1">>,
   <<"Z", "0">> \o JsonSuffix, JsonSuffix, <<"a", ".", "t", "x", "t">>,
   <<"a", "_", "x">>, <<"a">> \o JsonSuffix \o JsonSuffix,
   <<".", ".">>, TodosSegment \o JsonSuffix}

MockPaths == {<<"api", f>> : f \in MockFilenames} \cup {<<"test">>}

\* The records another client stores first.
SeedRequests == {RestCall(Fetch("POST", EmptyId, [title |-> <<"a">>]))}

\* A client sends a GET to the worker.
MockSend ==
  /\ inv["api"] = Idle
  /\ calls < MaxCalls
  /\ calls' = calls + 1
  /\ \E env \in MockEnvs, path \in MockPaths :
       inv' = [inv EXCEPT
                 !["api"] = [pc |-> "asked",
                             call |-> [via |-> "get", env |-> env,
                                       path |-> path]]]
  /\ UNCHANGED <<kv, clock, nextId, view>>

\* The worker answers the GET.
MockServe ==
  /\ inv["api"].pc = "asked"
  /\ \E fault \in PageFaults :
       inv' = [inv EXCEPT
                 !["api"] = Done(inv["api"].call,
                                 AppGet(inv["api"].call.env, kv,
                                        inv["api"].call.path, fault),
                                 1, fault)]
  /\ UNCHANGED <<kv, clock, nextId, calls, view>>

\* The worker answering GETs, with a store that another client fills.
NextMock ==
  \/ Tick
  \/ ApiSend(SeedRequests)
  \/ ServerBegin("api", PageFaults)
  \/ MockSend
  \/ MockServe
  \/ ApiReturn

SpecMock == Init /\ [][NextMock]_vars

\* ------------------------------------------------------------- properties
\* The calls of the page session that the server has not answered yet.
Outstanding == {s \in {"nav", "old"} : inv[s].pc \in {"sent", "got"}}

\* Slot s holds a call of the page carrying the delete intent for id.
DeleteCall(s, id) ==
  /\ inv[s].pc # "idle"
  /\ inv[s].call.via = "action"
  /\ inv[s].call.form.intent = Some("delete")
  /\ inv[s].call.form.id = Some(id)

HasDeleteToast(id) ==
  \E k \in 1 .. Len(toasts) : toasts[k].id = DeleteToastId(id)

\* C1: once Undo has answered a delete request, and until the next delete
\* request, no delete intent has been or is being sent for it, its
\* notification is not in the queue, the todo is not pending deletion, and
\* the record is in the local list and in the store; the undo itself changes
\* neither the local list nor the store.
C1_UndoKeepsTodo ==
  /\ [](del.status = "undone" =>
          LET id == del.id[1]
          IN /\ del.intents = 0
             /\ \A s \in {"nav", "old"} : ~DeleteCall(s, id)
             /\ ~HasDeleteToast(id)
             /\ deletingTodoId # Some(id)
             /\ deletingTodoIdRef # Some(id)
             /\ id \in TodoIds(todos)
             /\ id \in DOMAIN kv)
  /\ [][del.status # "undone" /\ del'.status = "undone"
          => todos' = todos /\ kv' = kv]_vars

C1_Undone ==
  /\ del.status = "undone"
  /\ del.id[1] \in DOMAIN kv
  /\ toasts = <<>>

\* C2: when the undo window of a delete request has lapsed, exactly one
\* delete intent has been sent for it, and once that intent has succeeded
\* the record is neither in the store nor in the local list and the todo is
\* not pending deletion.
C2_LapsedDeleteRemoves ==
  /\ del.status # "lapsed"
  /\ del.status \in {"fired", "done", "failed"} => del.intents = 1
  /\ del.status = "done" =>
       /\ del.id[1] \notin DOMAIN kv
       /\ del.id[1] \notin TodoIds(todos)
       /\ deletingTodoId # del.id
       /\ deletingTodoIdRef # del.id

\* C3: while the undo window of a delete request is open, no delete intent
\* has been sent for it and none is being served; and a delete intent is
\* submitted only by the dismissal of a notification whose onDismiss names
\* the todo, with deletingTodoIdRef naming that todo too.
C3_DeleteOnlyAfterWindow ==
  /\ [](del.status = "open" =>
          /\ del.intents = 0
          /\ \A s \in {"nav", "old"} : ~DeleteCall(s, del.id[1]))
  /\ [][(/\ calls' = calls + 1
          /\ navigation'.state = "submitting"
          /\ navigation'.formData.intent = Some("delete"))
         => \E k \in 1 .. Len(toasts) :
              /\ "onDismiss" \in DOMAIN toasts[k]
              /\ Some(toasts[k].onDismiss) = navigation'.formData.id
              /\ deletingTodoIdRef = navigation'.formData.id
              /\ toasts' = RemoveToast(toasts, toasts[k].id)]_vars

C3_DeleteSent ==
  /\ del.status = "fired"
  /\ DeleteCall("nav", del.id[1])
  /\ inv["nav"].pc = "sent"

\* C4: at most one call of the page session is outstanding at any time.
C4_OneOutstanding == Cardinality(Outstanding) <= 1

\* The page is at rest: no navigation is pending and no call is outstanding.
AtRest == navigation.state = "idle" /\ Outstanding = {}

\* C5: when the page is at rest, every record that a create has put in the
\* store and that no update has written since is in the local list.
C5_CreatedIsListed ==
  AtRest =>
    \A k \in DOMAIN kv :
      "updatedAt" \notin DOMAIN kv[k] => k \in TodoIds(todos)

\* The form names no known intent, or lacks a field its intent requires.
FailsValidation(form) ==
  CASE form.intent = Some("create") ->
         \/ form.title = None
         \/ \A i \in 1 .. Len(form.title[1]) : form.title[1][i] = " "
    [] form.intent \in {Some("update"), Some("delete")} ->
         form.id = None \/ form.id = Some(EmptyId)
    [] OTHER -> TRUE

\* The result is a success tagged with the form's intent, or an error with a
\* message.
Tagged(form, result) ==
  /\ "intent" \in DOMAIN result
  /\ \/ result.intent = "error" /\ "error" \in DOMAIN result.data
     \/ /\ result.intent \in {"create", "update", "delete"}
        /\ form.intent = Some(result.intent)

\* The call of another client is an answered call of the dispatcher.
Answered ==
  inv["api"].pc = "done" /\ inv["api"].call.via = "action"

C7_ValidationGuardsRequests ==
  /\ [](\A s \in Slots :
          (/\ inv[s].pc \in {"got", "done"}
           /\ inv[s].call.via = "action"
           /\ inv[s].call.form.parses)
          => inv[s].nreq = IF FailsValidation(inv[s].call.form) THEN 0 ELSE 1)
  /\ [][\A s \in Slots :
          (/\ inv[s].pc = "sent"
           /\ inv[s].call.via = "action"
           /\ inv[s].call.form.parses
           /\ FailsValidation(inv[s].call.form)
           /\ inv'[s] # inv[s])
          => kv' = kv]_vars

C7_BlankTitleRefused ==
  /\ Answered
  /\ inv["api"].call.form.intent = Some("create")
  /\ inv["api"].call.form.title = Some(<<" ">>)
  /\ inv["api"].nreq = 0
  /\ kv # EmptyObject

\* The error result of an update that the REST facade answered with 404.
UpdateNotFound == ErrorResult(FailedMessage("PUT", 404))

\* This step serves the page's update of a record that is not in the store.
ServesAbsentUpdate ==
  /\ inv["nav"].pc = "sent"
  /\ inv["nav"].call.form.intent = Some("update")
  /\ inv["nav"].call.form.id[1] \notin DOMAIN kv
  /\ inv'["nav"].pc = "done"
  /\ inv'["nav"].fault = "none"

\* This step ends the navigation of an update that was answered with 404:
\* the page handles the result.
HandlesNotFound ==
  /\ navigation'.state = "idle"
  /\ \/ /\ navigation.state = "loading"
        /\ navigation.actionData = UpdateNotFound
     \/ /\ navigation.state = "submitting"
        /\ inv["nav"].pc = "done"
        /\ inv["nav"].result = UpdateNotFound

\* The step appends an error notification with the result's message.
AddsErrorToast(msg) ==
  /\ Len(toasts') = Len(toasts) + 1
  /\ SubSeq(toasts', 1, Len(toasts)) = toasts
  /\ toasts'[Len(toasts')].title = "Error"
  /\ toasts'[Len(toasts')].description = msg
  /\ toasts'[Len(toasts')].duration = ErrorToastDuration

PutWrites ==
  /\ inv["api"].pc = "got"
  /\ inv'["api"].pc = "done"
  /\ inv'["api"].fault # "kv"

\* This step completes, with success, an update intent that supplies
\* `completed` and no title.
ToggleSucceeds ==
  /\ PutWrites
  /\ inv["api"].call.via = "action"
  /\ inv["api"].call.form.title = None
  /\ inv["api"].call.form.completed # None
  /\ inv'["api"].result.intent = "update"

\* The record under id is left with the title it had and the completed
\* flag the form supplies.
ToggleApplied(id, form) ==
  /\ id \in DOMAIN kv /\ id \in DOMAIN kv'
  /\ kv'[id].title = kv[id].title
  /\ kv'[id].completed = (form.completed[1] = "true")
  /\ "updatedAt" \in DOMAIN kv'[id]

C10_UpdateFrame ==
  [][PutWrites =>
       LET id == inv["api"].req.id
           body == inv["api"].req.body
       IN /\ id \in DOMAIN kv
          /\ DOMAIN kv' = DOMAIN kv
          /\ \A k \in DOMAIN kv \ {id} : kv'[k] = kv[k]
          /\ DOMAIN kv'[id] = DOMAIN kv[id] \cup DOMAIN body \cup {"updatedAt"}
          /\ \A f \in DOMAIN kv'[id] \ {"updatedAt"} :
               kv'[id][f] = IF f \in DOMAIN body THEN body[f] ELSE kv[id][f]]_vars

C10_TitleOnlyUpdate ==
  /\ inv["api"].pc = "done"
  /\ inv["api"].call.via = "rest"
  /\ inv["api"].call.req.method = "PUT"
  /\ inv["api"].call.req.body = [title |-> <<"b">>]
  /\ inv["api"].result.status = 200
  /\ inv["api"].result.body.completed
  /\ Cardinality(DOMAIN kv) = 2

\* The identifier the call in the other client's slot sends a PUT for, if it
\* sends one.
PutId ==
  LET c == inv["api"].call
  IN IF c.via = "rest"
     THEN IF c.req.method = "PUT" THEN Some(c.req.id) ELSE None
     ELSE IF c.form.parses /\ c.form.intent = Some("update")
             /\ ~FailsValidation(c.form)
          THEN c.form.id
          ELSE None

\* The answer in the other client's slot is that of a 404.
AnsweredNotFound ==
  IF inv'["api"].call.via = "rest"
  THEN inv'["api"].result.status = 404
  ELSE inv'["api"].result = UpdateNotFound

DeleteId ==
  LET c == inv["api"].call
  IN IF c.via = "rest"
     THEN IF c.req.method = "DELETE" THEN Some(c.req.id) ELSE None
     ELSE IF c.form.parses /\ c.form.intent = Some("delete")
             /\ ~FailsValidation(c.form)
          THEN c.form.id
          ELSE None

\* C12: a REST delete that the store serves is answered with status 200 and
\* {success: true} whether the record was there or not; afterwards the
\* identifier is not in the store, every other record is as it was, and the
\* store is left unchanged when the identifier was already absent.
C12_DeleteIdempotent ==
  [][(/\ inv["api"].pc = "sent"
      /\ DeleteId # None
      /\ inv'["api"].pc = "done"
      /\ inv'["api"].fault \in {"none", "json"})
     => /\ DOMAIN kv' = DOMAIN kv \ {DeleteId[1]}
        /\ \A k \in DOMAIN kv' : kv'[k] = kv[k]
        /\ DeleteId[1] \notin DOMAIN kv => kv' = kv
        /\ inv["api"].call.via = "rest"
             => inv'["api"].result = Response(200, [success |-> TRUE])
        /\ inv["api"].call.via = "action"
             => inv'["api"].result.intent = "delete"]_vars

C12_DeletedAbsent ==
  /\ inv["api"].pc = "done"
  /\ inv["api"].call.via = "rest"
  /\ inv["api"].call.req.method = "DELETE"
  /\ inv["api"].call.req.id >= nextId
  /\ inv["api"].result.status = 200
  /\ kv # EmptyObject

\* This step serves the POST of the call in the other client's slot, and the
\* store takes the record.
PostStores ==
  /\ inv["api"].pc = "sent"
  /\ \/ /\ inv["api"].call.via = "rest"
        /\ inv["api"].call.req.method = "POST"
     \/ /\ inv["api"].call.via = "action"
        /\ inv["api"].call.form.parses
        /\ inv["api"].call.form.intent = Some("create")
        /\ ~FailsValidation(inv["api"].call.form)
  /\ inv'["api"].pc = "done"
  /\ inv'["api"].fault \in {"none", "json"}

\* GET /api/todos lists every stored record once, under its key.
ListReportsKeys ==
  LET list == TodosGet(kv)
  IN /\ Len(list) = Cardinality(DOMAIN kv)
     /\ \A i, j \in 1 .. Len(list) : list[i].id = list[j].id => i = j
     /\ \A i \in 1 .. Len(list) :
          /\ list[i].id \in DOMAIN kv
          /\ \A f \in DOMAIN kv[list[i].id] \ {"id"} :
               list[i][f] = kv[list[i].id][f]

\* C13: a REST create adds exactly one key to the store, one that no record
\* has and that was never handed out before; the record under it carries
\* that key as its id, completed = false and the clock's reading as
\* createdAt, whatever the body says; every other record is as it was; and
\* the list always reports each record under its store key.
C13_CreateIsFresh ==
  /\ [][PostStores =>
          \E k \in DOMAIN kv' \ DOMAIN kv :
            /\ DOMAIN kv' = DOMAIN kv \cup {k}
            /\ k >= nextId
            /\ kv'[k].id = k
            /\ kv'[k].completed = FALSE
            /\ kv'[k].createdAt = clock
            /\ \A j \in DOMAIN kv : kv'[j] = kv[j]]_vars
  /\ []ListReportsKeys

C13_CreatedSecond ==
  /\ inv["api"].pc = "done"
  /\ inv["api"].call.via = "rest"
  /\ inv["api"].call.req.method = "POST"
  /\ inv["api"].call.req.body.id = 1
  /\ inv["api"].result.status = 201
  /\ inv["api"].result.body.id = 2
  /\ \E k \in DOMAIN kv : kv[k].id # k

\* C14: every record in the store has a title, and the title is not blank.
C14_TitleNeverBlank ==
  \A k \in DOMAIN kv :
    "title" \in DOMAIN kv[k] /\ Trim(kv[k].title) # <<>>

\* C15: no step changes the createdAt of a record that stays in the store.
C15_CreatedAtImmutable ==
  [][\A k \in DOMAIN kv \cap DOMAIN kv' :
       kv'[k].createdAt = kv[k].createdAt]_vars

\* The queue without its entries that have the id, the others in order.
RECURSIVE QueueWithout(_, _)
QueueWithout(queue, id) ==
  IF queue = <<>> THEN <<>>
  ELSE IF Head(queue).id = id THEN QueueWithout(Tail(queue), id)
  ELSE <<Head(queue)>> \o QueueWithout(Tail(queue), id)

\* C16: addToast puts the notification after the entries of the queue, which
\* stay as they are, under the id it was given or, given none, under a
\* generated id; removeToast and removeToastById leave the entries with
\* another id, in their order, and nothing else, so a queue with no entry of
\* that id stays as it is.
C16_QueueOps ==
  /\ \A toast \in ToastInputs, rnd \in Randoms :
       LET queue == AddToast(toasts, toast, clock, rnd)
           n == Len(toasts)
       IN /\ Len(queue) = n + 1
          /\ SubSeq(queue, 1, n) = toasts
          /\ queue[n + 1].title = toast.title
          /\ queue[n + 1].id = IF "id" \in DOMAIN toast /\ toast.id # <<>>
                               THEN toast.id
                               ELSE <<"toast", clock, rnd>>
  /\ \A id \in ToastIds :
       /\ RemoveToast(toasts, id) = QueueWithout(toasts, id)
       /\ RemoveToastById(toasts, id) = QueueWithout(toasts, id)
       /\ (\A k \in 1 .. Len(toasts) : toasts[k].id # id)
            => /\ RemoveToast(toasts, id) = toasts
               /\ RemoveToastById(toasts, id) = toasts

C16_QueueOfThree ==
  /\ Len(toasts) = 3
  /\ toasts[1].id = DeleteToastId(1)
  /\ toasts[2].id = <<"toast", 1, 0>>
  /\ toasts[3].id = DeleteToastId(1)

\* The toast leaves the queue in the step.
ToastLeaves(toast) ==
  \A j \in 1 .. Len(toasts') : toasts'[j].id # toast.id

\* C17: a step that takes from the queue a toast whose onDismiss has a
\* delete to send either is the undo, which clears the pending deletion and
\* sends nothing, or has called onDismiss, which has submitted the delete
\* intent of the toast's todo.
C17_DismissCallsBack ==
  [][\A k \in 1 .. Len(toasts) :
       (/\ "onDismiss" \in DOMAIN toasts[k]
        /\ deletingTodoIdRef = Some(toasts[k].onDismiss)
        /\ ToastLeaves(toasts[k]))
         => IF deletingTodoIdRef' = None
            THEN /\ calls' = calls
                 /\ navigation' = navigation
                 /\ inv' = inv
            ELSE LET form == Form(TRUE, Some("delete"),
                                  Some(toasts[k].onDismiss), None, None)
                 IN /\ calls' = calls + 1
                    /\ navigation' = [state |-> "submitting",
                                      formData |-> form]
                    /\ inv'["nav"] = Sent(ActionCall(form))]_vars

C17_DismissedWithCallback ==
  /\ del.status = "fired"
  /\ toasts = <<>>
  /\ navigation.state = "submitting"
  /\ navigation.formData.intent = Some("delete")
  /\ deletingTodoIdRef = del.id

\* C18: the count on the All button is the sum of the counts on the Active
\* and Completed buttons, and the three counts are those of the whole local
\* list whatever filter is selected.
C18_CountsAddUp ==
  /\ CountAll = CountActive + CountCompleted
  /\ CountAll = Len(todos)
  /\ CountActive = Cardinality({i \in 1 .. Len(todos) : ~todos[i].completed})
  /\ CountCompleted = Cardinality({i \in 1 .. Len(todos) : todos[i].completed})

C18_FilteredWithBoth ==
  /\ filter = "completed"
  /\ CountActive = 1
  /\ CountCompleted = 1

\* C19: once the delete intent of a request has failed and its error result
\* has been applied, no todo is marked as pending deletion, so the Delete
\* buttons work again.
C19_FailedDeleteClears ==
  (del.status = "failed" /\ navigation.state = "idle")
    => deletingTodoId = None /\ deletingTodoIdRef = None

\* The step is a cancel of the edit: nothing is submitted.
EditCancelled ==
  /\ navigation.state = "idle"
  /\ navigation' = navigation
  /\ editingTodoId' = None

\* The step opens the edit of another todo, which drops this edit as a
\* cancel does.
EditMoved ==
  /\ navigation.state = "idle"
  /\ navigation' = navigation
  /\ editingTodoId' # None

\* The step ends the navigation that submitted the new title of the todo
\* being edited.
EditSaved ==
  /\ navigation.state # "idle"
  /\ navigation'.state = "idle"
  /\ navigation.formData.intent = Some("update")
  /\ navigation.formData.id = editingTodoId
  /\ navigation.formData.title # None
  /\ editingTodoId' = None

\* C20: a step that ends the edit of a todo is a cancel, by its button or by
\* editing another todo, or the confirmation of the save of that todo's
\* title.
C20_EditEndsBySaveOrCancel ==
  [][(editingTodoId # None /\ editingTodoId' # editingTodoId)
       => (EditCancelled \/ EditMoved \/ EditSaved)]_vars

\* C21: the todo being edited is never the todo pending deletion.
C21_EditXorDelete ==
  editingTodoId = None \/ editingTodoId # deletingTodoId

\* The step ends the pending navigation: its result is applied.
NavigationEnds == navigation.state # "idle" /\ navigation'.state = "idle"

\* The result the step applies.
AppliedResult ==
  IF navigation.state = "loading" THEN navigation.actionData
  ELSE inv["nav"].result

\* The list the result is applied to: the loader's list when the data has
\* been loaded again, the local list otherwise.
AppliedTo == IF navigation.state = "loading" THEN TodosGet(kv) ELSE todos

\* The list is base with the record of the id replaced by its merge with data.
MergedInto(base, data, list) ==
  /\ Len(list) = Len(base)
  /\ \A i \in 1 .. Len(base) :
       list[i] = IF base[i].id = data.id
                 THEN [f \in DOMAIN base[i] \cup DOMAIN data |->
                         IF f \in DOMAIN data THEN data[f] ELSE base[i][f]]
                 ELSE base[i]

\* The list is base without the records of the id, the others in order.
RemovedFrom(base, id, list) ==
  /\ \A i \in 1 .. Len(list) : list[i].id # id
  /\ \E keep \in SUBSET (1 .. Len(base)) :
       /\ \A i \in 1 .. Len(base) : i \in keep <=> base[i].id # id
       /\ Len(list) = Cardinality(keep)
       /\ \A i \in keep :
            list[Cardinality({j \in keep : j <= i})] = base[i]

C23_ReloadReplacesList ==
  [][/\ (navigation.state = "submitting" /\ navigation'.state = "loading")
          => /\ inv["nav"].result.intent = "error"
             /\ navigation'.actionData = inv["nav"].result
             /\ todos' = todos
     /\ (navigation.state = "submitting" /\ navigation'.state = "idle")
          => inv["nav"].result.intent \in {"create", "update", "delete"}
     /\ (navigation.state = "loading" /\ navigation'.state = "idle")
          => todos' = TodosGet(kv)]_vars

C23_ReloadedListDiffers ==
  /\ navigation.state = "loading"
  /\ todos # TodosGet(kv)

\* The positions of the delete-undo toasts in a queue.
DeleteToasts(queue) ==
  {k \in 1 .. Len(queue) : "onDismiss" \in DOMAIN queue[k]}

C25_NoRecordAfterDelete ==
  [][\A s \in Slots :
       (/\ inv[s].pc = "got"
        /\ inv'[s].pc # "got"
        /\ inv[s].req.id \notin DOMAIN kv
        /\ \A t \in Slots \ {s} : inv[t] = Idle)
         => inv[s].req.id \notin DOMAIN kv']_vars

\* C26: when the page is at rest and no undo window is open, the local list
\* has the identifiers of the store, each once, and for each the title and
\* the completed flag of the stored record.
C26_ListMirrorsStore ==
  (AtRest /\ DeleteToasts(toasts) = {})
    => /\ TodoIds(todos) = DOMAIN kv
       /\ Len(todos) = Cardinality(DOMAIN kv)
       /\ \A i \in 1 .. Len(todos) :
            todos[i].id \in DOMAIN kv
              => /\ todos[i].title = kv[todos[i].id].title
                 /\ todos[i].completed = kv[todos[i].id].completed

\* A toast with this id is in the queue.
InQueue(id) == \E k \in 1 .. Len(toasts) : toasts[k].id = id

\* C27: addToast gives a toast the duration it is handed, and 5000 ms when
\* it is handed none or 0, so every toast in the queue has a timer; every
\* toast in the queue is removed in the end; and an onDismiss runs only in a
\* step that starts with its toast in the queue and takes it out.
C27_ToastsAreRemoved ==
  /\ [](/\ \A k \in 1 .. Len(toasts) :
             toasts[k].duration > 0 /\ toasts[k].id \in ToastIds
        /\ \A toast \in ToastInputs, rnd \in Randoms :
             LET queue == AddToast(toasts, toast, clock, rnd)
             IN queue[Len(queue)].duration
                  = IF "duration" \in DOMAIN toast /\ toast.duration # 0
                    THEN toast.duration
                    ELSE DefaultToastDuration)
  /\ [][del' # del
          => \E k \in DeleteToasts(toasts) :
               /\ del'.id = Some(toasts[k].onDismiss)
               /\ ToastLeaves(toasts[k])]_vars
  /\ \A id \in ToastIds : InQueue(id) ~> ~InQueue(id)

C27_DefaultDurationQueued ==
  /\ del.status = "lapsed"
  /\ Len(toasts) = 1
  /\ toasts[1].title = "Zero"
  /\ toasts[1].duration = DefaultToastDuration

\* The records the filter f selects.
SelectedBy(f, todo) ==
  \/ f = "all"
  \/ f = "active" /\ todo.completed = FALSE
  \/ f = "completed" /\ todo.completed = TRUE

\* C28: the rendered list is in descending order of createdAt and holds,
\* each once, the local records the selected filter selects; a step that
\* changes the completed flag of a record moves it from one of the "active"
\* and "completed" selections to the other.
C28_RenderedList ==
  /\ [](/\ \A i, j \in 1 .. Len(FilteredTodos) :
             i < j => FilteredTodos[i].createdAt >= FilteredTodos[j].createdAt
        /\ {FilteredTodos[i] : i \in 1 .. Len(FilteredTodos)}
             = {todos[i] : i \in {k \in 1 .. Len(todos) :
                                    SelectedBy(filter, todos[k])}}
        /\ Len(FilteredTodos)
             = Cardinality({k \in 1 .. Len(todos) :
                              SelectedBy(filter, todos[k])}))
  /\ [][\A i \in 1 .. Len(todos), j \in 1 .. Len(todos') :
          (todos[i].id = todos'[j].id
           /\ todos[i].completed # todos'[j].completed)
            => /\ SelectedBy("active", todos[i])
                    # SelectedBy("active", todos'[j])
               /\ SelectedBy("completed", todos[i])
                    # SelectedBy("completed", todos'[j])
               /\ SelectedBy("active", todos'[j])
                    # SelectedBy("completed", todos'[j])]_vars

C28_NewestFirstFiltered ==
  /\ filter = "active"
  /\ Len(todos) = 2
  /\ todos[1].createdAt < todos[2].createdAt
  /\ todos[2].completed
  /\ Len(FilteredTodos) = 1
  /\ FilteredTodos[1] = todos[1]

\* The file name is one or more letters, digits and hyphens, and then
\* nothing or ".json".
MatchesPattern(filename) ==
  \E n \in 1 .. Len(filename) :
    /\ \A i \in 1 .. n : IsNameChar(filename[i])
    /\ n = Len(filename) \/ SubSeq(filename, n + 1, Len(filename)) = JsonSuffix

\* The files the environment can serve.
FilesOf(env) ==
  env.modules \cup (IF env.ASSETS = None THEN {} ELSE env.ASSETS[1].files)

\* C29: a GET of /api/todos is answered by the list operation of the todos,
\* with the records of the store; a GET of any other /api/{filename} is
\* answered by the mock-data route: with 403 when MOCK_API is not the
\* boolean true, whatever the file name; otherwise with 400 when the name
\* does not match the pattern; otherwise with 404 when no such file is
\* there.
C29_MockRouteStatus ==
  [][(inv["api"].pc = "asked" /\ inv'["api"].pc = "done")
       => LET c == inv["api"].call
              r == inv'["api"].result
          IN IF c.path = <<"api", TodosSegment>>
             THEN /\ r.route = "todos"
                  /\ inv'["api"].fault = "none"
                       => r.resp = Response(200, TodosGet(kv))
             ELSE (Len(c.path) = 2 /\ c.path[1] = "api")
                    => /\ r.route = "mock"
                       /\ c.env.MOCK_API # "true:boolean"
                            => r.resp.status = 403
                       /\ (/\ c.env.MOCK_API = "true:boolean"
                           /\ ~MatchesPattern(c.path[2]))
                            => r.resp.status = 400
                       /\ (/\ c.env.MOCK_API = "true:boolean"
                           /\ MatchesPattern(c.path[2])
                           /\ NormalizedFilename(c.path[2]) \notin FilesOf(c.env))
                            => r.resp.status = 404]_vars

C29_DisabledInvalidName ==
  /\ inv["api"].pc = "done"
  /\ inv["api"].call.via = "get"
  /\ inv["api"].call.env.MOCK_API = "true:string"
  /\ inv["api"].call.path = <<"api", <<"a", "_", "x">>>>
  /\ inv["api"].result.resp.status = 403

\* C30: with the "completed" filter selected a step that raises the active
\* count of a list that was not empty, and with the "active" filter selected
\* a step that raises its completed count, leaves the other tab highlighted;
\* with the "all" filter selected no step starts a highlight; and as long as
\* a timer of a highlight has not run, the highlight is on.
C30_HighlightOnIncrease ==
  /\ [][/\ (filter = "completed" /\ filter' = filter /\ todos # <<>>
            /\ CountsOf(todos').active > CountsOf(todos).active)
             => animatingFilter' = Some("active")
        /\ (filter = "active" /\ filter' = filter /\ todos # <<>>
            /\ CountsOf(todos').completed > CountsOf(todos).completed)
             => animatingFilter' = Some("completed")
        /\ (filter = "all" /\ animatingFilter' # animatingFilter)
             => animatingFilter' = None]_vars
  /\ [](animationTimers > 0 => animatingFilter # None)
====
